---- MODULE Spec2Model ----
(***************************************************************************)
(* Model of native_sparse_attention_pytorch/nsa.py (SparseAttention) and   *)
(* of the naive reference regular_attend of test_triton_nsa.py.            *)
(*                                                                         *)
(* One batch element and one head are modelled: every masking, selection   *)
(* and shape decision of forward is identical across batch and heads.      *)
(* Positions, block indices and columns are 0-based as in the source;      *)
(* the K selected slots and the candidate axis are 1-based sequences.      *)
(* Attention weights are modelled by their support (the set of columns     *)
(* that receive non-zero weight after the softmax).                        *)
(*                                                                         *)
(* forward computes every tensor row by row along the query axis (no       *)
(* operation mixes two query positions), so the frame of a forward call    *)
(* holds row qpos of each tensor, for a query position the call chooses;   *)
(* sequence length, block counts and the shapes that decide a raise are    *)
(* those of the whole call.                                                *)
(***************************************************************************)
EXTENDS Integers, Sequences, FiniteSets, TLC

\* ---------------------------------------------------------------- bounds
MaxSeqLen == 4
MaxBlockSize == 2
MaxSelected == 2
MaxMemKV == 2
MaxWindow == 2
MaxHeads == 3

\* ------------------------------------------------------------- constants
\* torch.finfo(csim.dtype).max, scaled down to fit 32-bit integers;
\* every raw similarity of the model is far above -FloatMax.
FloatMax == 1000
mask_value == -FloatMax

\* module-level block size of the test script
fine_block_size == 16

\* values of one query feature and of one compressed key feature (dim_head = 1)
QValues == {-1, 1}
CKValues == {0, 1}

\* ----------------------------------------------------------------- state
VARIABLES
    pc,                         \* position of the program
    args,                       \* arguments of SparseAttention.__init__
    self,                       \* the constructed module's attributes
    seq_len,                    \* inp.shape[1] of the forward call
    qpos,                       \* the query position i the frame shows
    q,                          \* the query at qpos, one feature
    ck,                         \* compressed keys, one feature per block
    cmask,                      \* row qpos of the coarse mask handed to masked_fill
    csim,                       \* coarse similarity after masked_fill
    cattn,                      \* per query: columns with non-zero coarse weight
    selected_importance_values, \* topk values
    selected_block_indices,     \* topk indices
    fmask,                      \* fine mask handed to masked_fill
    fsim,                       \* fine similarity after masked_fill: TRUE = filled
    fattn,                      \* per query: candidates with non-zero fine weight
    out_len,                    \* sequence axis of the returned tensor
    raised_at,                  \* source line of the raise, 0 when none
    ra                          \* frame of regular_attend

fvars == <<seq_len, qpos, q, ck, cmask, csim, cattn, selected_importance_values,
           selected_block_indices, fmask, fsim, fattn, out_len, raised_at>>
vars == <<pc, args, self, seq_len, qpos, q, ck, cmask, csim, cattn,
          selected_importance_values, selected_block_indices, fmask, fsim,
          fattn, out_len, raised_at, ra>>

NoModule == [constructed |-> FALSE]
NoArgs == [given |-> FALSE]
NoFrame == [status |-> "idle"]

\* --------------------------------------------------------------- helpers
divisible_by(num, den) == (num % den) = 0

round_down_mult(n, mult) == (n \div mult) * mult

\* ceil(n / mult) * mult
round_up_mult(n, mult) == ((n + mult - 1) \div mult) * mult

\* F.pad(t, (left, right), value) on the last axis of a 0-based row
pad_row(t, len, left, right, value) ==
    [j \in 0 .. (left + len + right - 1) |->
        IF j < left \/ j >= left + len THEN value ELSE t[j - left]]

\* F.pad(t, (0, right), value) on the last axis of a 1-based sequence
pad_seq(t, right, value) ==
    [s \in 1 .. (Len(t) + right) |-> IF s <= Len(t) THEN t[s] ELSE value]

\* repeat(t, '... w -> ... (w j)', j = n)
repeat_seq(t, n) ==
    [p \in 1 .. (Len(t) * n) |-> t[((p - 1) \div n) + 1]]

\* support of softmax over a row of which `filled` entries hold mask_value:
\* exp(mask_value - max) is 0 unless the whole row holds mask_value, in which
\* case the weights are uniform.
softmax_support(filled, cols) ==
    LET open == {j \in cols : ~filled[j]}
    IN  IF open # {} THEN open ELSE cols

\* ------------------------------------------------------------- __init__
\* __init__ without its second assert statement
CtorNoMemAssert(a) == a.compress_block_size = a.selection_block_size

\* the two assert statements of __init__
CtorAsserts(a) ==
    /\ a.compress_block_size = a.selection_block_size
    /\ a.num_compressed_mem_kv > 0

CtorArgs ==
    [compress_block_size : 1 .. MaxBlockSize,
     selection_block_size : 1 .. MaxBlockSize,
     num_selected_blocks : 1 .. MaxSelected,
     num_compressed_mem_kv : 0 .. MaxMemKV,
     sliding_window_size : 1 .. MaxWindow,
     given : {TRUE}]

Construct ==
    /\ pc = "new"
    /\ \E a \in CtorArgs :
        /\ args' = a
        /\ IF CtorAsserts(a)
           THEN /\ self' = [constructed |-> TRUE,
                            compress_block_size |-> a.compress_block_size,
                            selection_block_size |-> a.selection_block_size,
                            num_selected_blocks |-> a.num_selected_blocks,
                            num_mem_compress_kv |-> a.num_compressed_mem_kv,
                            sliding_window_size |-> a.sliding_window_size]
                /\ pc' = "constructed"
           ELSE /\ self' = NoModule
                /\ pc' = "ctor_error"
    /\ UNCHANGED <<fvars, ra>>

\* --------------------------------------------------------------- forward
num_compress_blocks(n, block) == round_down_mult(n, block) \div block

\* closing position of every coarse column: -1 for the memory columns,
\* (c + 1) * compress_block_size - 1 for compressed block c
ck_seq(ncb, block, nmem) ==
    pad_row([c \in 0 .. (ncb - 1) |-> ((c + 1) * block) - 1], ncb, nmem, 0, -1)

\* row i of einx.less('j, i -> i j', ck_seq, cq_seq)
CMask(i, ncb, block, nmem) ==
    [j \in 0 .. (nmem + ncb - 1) |-> ck_seq(ncb, block, nmem)[j] < i]

\* row i of einsum(q, cat((mem_ck, ck)), 'i d, j d -> i j') * scale with
\* dim_head = 1; the memory keys hold their initial value, zero
RawCSim(qi, ncb, nmem, ckin) ==
    [j \in 0 .. (nmem + ncb - 1) |-> IF j < nmem THEN 0 ELSE qi * ckin[j - nmem]]

\* t.masked_fill(mask, value) on one row
masked_fill(t, mask, value) ==
    [j \in DOMAIN t |-> IF mask[j] THEN value ELSE t[j]]

\* row i of csim.softmax(dim = -1)
CAttn(sim) ==
    softmax_support([j \in DOMAIN sim |-> sim[j] = mask_value], DOMAIN sim)

\* row i of csim[..., num_mem_compress_kv:]
importance_scores(sim, ncb, nmem) ==
    [c \in 0 .. (ncb - 1) |-> sim[c + nmem]]

\* row.topk(k): every index sequence topk may return for the row (the order
\* among equal values is not specified)
topk(row, ncb, k) ==
    {idx \in [1 .. k -> 0 .. (ncb - 1)] :
        /\ \A s, t \in 1 .. k : s # t => idx[s] # idx[t]
        /\ \A s \in 1 .. (k - 1) : row[idx[s]] >= row[idx[s + 1]]
        /\ \A c \in 0 .. (ncb - 1) :
              (\A s \in 1 .. k : idx[s] # c) => row[c] <= row[idx[k]]}

\* row i of selected_importance_values > mask_value
FMask(values) ==
    [s \in DOMAIN values |-> values[s] > mask_value]

\* the padding and the repeat applied to fmask before it masks fsim
FMaskExpand(fm, n, block) ==
    LET remainder == round_up_mult(n, block) - n
        padded == IF n < round_up_mult(n, block)
                  THEN pad_seq(fm, remainder, FALSE)
                  ELSE fm
    IN  repeat_seq(padded, block)

\* position of candidate p of a query whose selected blocks are sel:
\* einx.get_at('[w] j d, i selected -> i (selected j) d', fk, indices)
candidate_position(sel, p, block) ==
    (sel[((p - 1) \div block) + 1] * block) + ((p - 1) % block)

\* a mask of last-axis length m broadcasts over a tensor of last-axis length len
broadcastable(m, len) == m = len \/ m = 1

\* row i of fsim.masked_fill(fmask, mask_value): TRUE where the entry is filled
FSim(fm, len) ==
    [p \in 1 .. len |-> IF Len(fm) = 1 THEN fm[1] ELSE fm[p]]

\* row i of fsim.softmax(dim = -1)
FAttn(fs) == softmax_support(fs, DOMAIN fs)

Frame(n, i, qi, ckin, cm, cs, ca, siv, sbi, fm, fs, fa, ol, line) ==
    /\ seq_len' = n
    /\ qpos' = i
    /\ q' = qi
    /\ ck' = ckin
    /\ cmask' = cm
    /\ csim' = cs
    /\ cattn' = ca
    /\ selected_importance_values' = siv
    /\ selected_block_indices' = sbi
    /\ fmask' = fm
    /\ fsim' = fs
    /\ fattn' = fa
    /\ out_len' = ol
    /\ raised_at' = line
    /\ pc' = IF line = 0 THEN "returned" ELSE "raised"

Forward ==
    /\ pc = "constructed"
    /\ \E n \in 1 .. MaxSeqLen :
        LET block == self.compress_block_size
            sblock == self.selection_block_size
            k == self.num_selected_blocks
            nmem == self.num_mem_compress_kv
            ncb == num_compress_blocks(n, block)
        IN  \E i \in 0 .. (n - 1), qi \in QValues, ckin \in [0 .. (ncb - 1) -> CKValues] :
            IF ncb = 0
            THEN \* the strided convolution is given an empty sequence
                 Frame(n, i, qi, ckin, <<>>, <<>>, {}, <<>>, <<>>, <<>>, <<>>, {}, 0, 179)
            ELSE
            LET cm == CMask(i, ncb, block, nmem)
                cs == masked_fill(RawCSim(qi, ncb, nmem, ckin), cm, mask_value)
                ca == CAttn(cs)
                imp == importance_scores(cs, ncb, nmem)
            IN  IF k > ncb
                THEN \* topk: k out of range
                     Frame(n, i, qi, ckin, cm, cs, ca, <<>>, <<>>, <<>>, <<>>, {}, 0, 212)
                ELSE
                \E sbi \in topk(imp, ncb, k) :
                LET siv == [s \in 1 .. k |-> imp[sbi[s]]]
                    fm == FMaskExpand(FMask(siv), n, sblock)
                    len == k * sblock
                IN  IF ~broadcastable(Len(fm), len)
                    THEN \* masked_fill: the mask does not broadcast over fsim
                         Frame(n, i, qi, ckin, cm, cs, ca, siv, sbi, fm, <<>>, {}, 0, 234)
                    ELSE LET fs == FSim(fm, len)
                         IN  Frame(n, i, qi, ckin, cm, cs, ca, siv, sbi, fm, fs,
                                   FAttn(fs), n, 0)
    /\ UNCHANGED <<args, self, ra>>

\* ------------------------------------------------- regular_attend (test)
RASeqLens == {fine_block_size, fine_block_size + (fine_block_size \div 2), 2 * fine_block_size}
RABlockSizes == {fine_block_size \div 2, fine_block_size}

\* assert divisible_by(q_heads, kv_heads)
RAHeadsCheck(q_heads, kv_heads) == divisible_by(q_heads, kv_heads)

RegularAttend ==
    /\ pc = "new"
    /\ \E q_heads \in 1 .. MaxHeads, kv_heads \in 1 .. MaxHeads,
          n \in RASeqLens, block_size \in RABlockSizes, num_sel_kv_blocks \in 0 .. 1 :
        LET call == [q_heads |-> q_heads, kv_heads |-> kv_heads, seq_len |-> n,
                     block_size |-> block_size, num_sel_kv_blocks |-> num_sel_kv_blocks]
        IN
        IF ~RAHeadsCheck(q_heads, kv_heads)
        THEN ra' = [status |-> "AssertionError", line |-> 22, call |-> call,
                    attended |-> FALSE]
        ELSE IF ~divisible_by(n, block_size)
        THEN ra' = [status |-> "AssertionError", line |-> 26, call |-> call,
                    attended |-> FALSE]
        ELSE IF num_sel_kv_blocks > 0 /\ ~divisible_by(n, fine_block_size)
        THEN \* rearrange '(w i)' with i = fine_block_size
             ra' = [status |-> "ShapeError", line |-> 55, call |-> call,
                    attended |-> TRUE, g |-> q_heads \div kv_heads, w |-> n \div block_size]
        ELSE IF num_sel_kv_blocks > 0 /\ block_size # fine_block_size
        THEN \* torch.cat of the diagonal and the selected scores
             ra' = [status |-> "ShapeError", line |-> 62, call |-> call,
                    attended |-> TRUE, g |-> q_heads \div kv_heads, w |-> n \div block_size]
        ELSE ra' = [status |-> "returned", line |-> 80, call |-> call,
                    attended |-> TRUE, g |-> q_heads \div kv_heads, w |-> n \div block_size,
                    out_heads |-> (q_heads \div kv_heads) * kv_heads,
                    out_len |-> (n \div block_size) * block_size]
    /\ pc' = "test_done"
    /\ UNCHANGED <<args, self, fvars>>

\* ------------------------------------------- what the output depends on
\* positions whose keys/values enter compressed_attn_out at qpos: the
\* positions pooled into every compressed block with non-zero coarse weight
\* (memory columns hold parameters, no position)
CoarseDeps ==
    UNION {{((j - self.num_mem_compress_kv) * self.compress_block_size) + o :
                o \in 0 .. (self.compress_block_size - 1)} :
           j \in {x \in cattn : x >= self.num_mem_compress_kv}}

\* positions whose keys/values enter fine_out at qpos: the gathered
\* candidates with non-zero fine weight (candidates at or past seq_len are
\* the zero padding)
FineDeps ==
    {pos \in 0 .. (seq_len - 1) :
        \E p \in fattn :
            pos = candidate_position(selected_block_indices, p, self.selection_block_size)}

\* positions the causal, exact sliding window of local attention reads
LocalDeps ==
    {j \in 0 .. (seq_len - 1) : j <= qpos /\ qpos - j <= self.sliding_window_size}

\* ----------------------------------------------------------------- claims
Forwarded == pc \in {"returned", "raised"}

\* the coarse mask, similarity and softmax were computed (lines 191-206)
CoarseDone == Forwarded /\ raised_at # 179

\* topk returned and the validity flags were computed (lines 212-214)
SelectDone == Forwarded /\ raised_at \notin {179, 212}

NumBlocks == num_compress_blocks(seq_len, self.compress_block_size)

\* last position of compressed block c
Closing(c) == ((c + 1) * self.compress_block_size) - 1

\* blocks wholly in the past of the query
VisibleBlocks == {c \in 0 .. (NumBlocks - 1) : Closing(c) < qpos}

\* the Selector's validity flag of slot s
Valid(s) == selected_importance_values[s] > mask_value

\* C1: causality. In a returned forward call every key/value position that
\* receives non-zero attention weight from query qpos, in the coarse, the
\* fine and the local branch, is a position <= qpos.
C1_Causality ==
    pc = "returned" => (CoarseDeps \cup FineDeps \cup LocalDeps) \subseteq 0 .. qpos

\* C2: compressed-block causal boundary. Compressed block c is left unmasked
\* in the coarse similarity of query qpos iff (c+1)*compressBlockSize - 1 < qpos.
C2_CompressedBoundary ==
    CoarseDone =>
        \A c \in 0 .. (NumBlocks - 1) :
            (~cmask[self.num_mem_compress_kv + c]) <=> (Closing(c) < qpos)

\* C3: memory always visible. No memory column of the coarse similarity is
\* masked, and at query position 0 every compressed column is masked, so the
\* coarse weights of query 0 lie on the memory columns only.
C3_MemoryAlwaysVisible ==
    CoarseDone =>
        /\ \A m \in 0 .. (self.num_mem_compress_kv - 1) : ~cmask[m]
        /\ qpos = 0 =>
            /\ \A c \in 0 .. (NumBlocks - 1) : cmask[self.num_mem_compress_kv + c]
            /\ cattn \subseteq 0 .. (self.num_mem_compress_kv - 1)

\* C4: selection validity. A slot flagged valid names a block that closes
\* before qpos, a slot naming a block that closes at or after qpos is flagged
\* invalid, and when fewer than K visible blocks exist exactly the excess
\* slots are flagged invalid.
C4_SelectionValidity ==
    SelectDone =>
        LET k == self.num_selected_blocks
            visible == Cardinality(VisibleBlocks)
        IN  /\ \A s \in 1 .. k :
                  Valid(s) => Closing(selected_block_indices[s]) < qpos
            /\ \A s \in 1 .. k :
                  Closing(selected_block_indices[s]) >= qpos => ~Valid(s)
            /\ Cardinality({s \in 1 .. k : ~Valid(s)})
                  = (IF visible < k THEN k - visible ELSE 0)

\* C5: shape preservation. Every forward call on a sequence that holds at
\* least numSelectedBlocks full blocks, of a length that is or is not a
\* multiple of the block size, returns a tensor whose sequence axis is
\* seq_len; the expanded fine mask has the candidate-axis length
\* numSelectedBlocks * selectionBlockSize of the fine similarity it masks.
C5_ShapePreservation ==
    (Forwarded /\ NumBlocks >= self.num_selected_blocks) =>
        /\ pc = "returned"
        /\ out_len = seq_len
        /\ Len(fmask) = self.num_selected_blocks * self.selection_block_size

\* C7: configuration violations fail fast. Constructor arguments with
\* selectionBlockSize # compressBlockSize or numCompressedMemKV <= 0 end in
\* an error, leave no module and never reach forward; regular_attend
\* rejects a queryHeads count that kvHeads does not divide at its first
\* assertion, before any attention is computed.
C7_ConfigFailFast ==
    /\ (args.given /\ ~(/\ args.compress_block_size = args.selection_block_size
                        /\ args.num_compressed_mem_kv > 0))
          => /\ pc = "ctor_error"
             /\ self = NoModule
    /\ pc = "ctor_error" => (seq_len = 0 /\ out_len = 0 /\ cattn = {} /\ fattn = {})
    /\ (pc \in {"constructed", "returned", "raised"})
          => /\ self.constructed
             /\ self.compress_block_size = self.selection_block_size
             /\ self.num_mem_compress_kv > 0
    /\ (ra.status # "idle" /\ ~divisible_by(ra.call.q_heads, ra.call.kv_heads))
          => /\ ra.status = "AssertionError"
             /\ ra.line = 22
             /\ ~ra.attended

\* C7 witness: the constructor was given equal block sizes and no memory
\* key/value, and ended in its error.
C7_Witness ==
    /\ pc = "ctor_error"
    /\ args.given
    /\ args.compress_block_size = args.selection_block_size
    /\ args.num_compressed_mem_kv <= 0

\* C8: degenerate fine attention. For a query with no causally visible
\* block (so no selected slot can be valid) the fine branch gives no
\* candidate any attention weight: its contribution is zero.
C8_DegenerateFineZero ==
    (pc = "returned" /\ VisibleBlocks = {}) => fattn = {}

\* C9: fine masking follows the Selector's flags. All selectionBlockSize
\* candidates gathered from slot s are masked iff slot s is flagged invalid.
C9_FineMaskFollowsFlags ==
    pc = "returned" =>
        \A s \in 1 .. self.num_selected_blocks :
            \A o \in 1 .. self.selection_block_size :
                fsim[((s - 1) * self.selection_block_size) + o] <=> ~Valid(s)

\* C10: the coarse softmax is well-posed. For every sequence length and
\* query position at least one column of the coarse similarity row (memory
\* + compressed) is left unmasked.
C10_CoarseWellPosed ==
    CoarseDone => \E j \in DOMAIN cmask : ~cmask[j]

\* --------------------------------------------------------- specification
Init ==
    /\ pc = "new"
    /\ args = NoArgs
    /\ self = NoModule
    /\ seq_len = 0
    /\ qpos = 0
    /\ q = 0
    /\ ck = <<>>
    /\ cmask = <<>>
    /\ csim = <<>>
    /\ cattn = {}
    /\ selected_importance_values = <<>>
    /\ selected_block_indices = <<>>
    /\ fmask = <<>>
    /\ fsim = <<>>
    /\ fattn = {}
    /\ out_len = 0
    /\ raised_at = 0
    /\ ra = NoFrame

Next == Construct \/ Forward \/ RegularAttend

Spec == Init /\ [][Next]_vars

====
